---- MODULE Spec2Model ----
(***************************************************************************)
(* CwlInsightsMetricsFetcher (braket.jobs.metrics_data): one fetcher       *)
(* object, its get_metrics_for_job calls, the CloudWatch Logs Insights     *)
(* client it talks to, the wall clock it reads and the per-call            *)
(* LogMetricsParser it feeds.                                              *)
(*                                                                         *)
(* Python values: Optional[x] is <<>> (None) or <<x>>; a log line is a     *)
(* sequence of [field, value] records; an f-string is the tuple of its     *)
(* pieces.                                                                 *)
(***************************************************************************)
EXTENDS Integers, Sequences, FiniteSets, TLC

VARIABLES
  poll_timeout_seconds,   \* self._poll_timeout_seconds
  poll_interval_seconds,  \* self._poll_interval_seconds
  args,                   \* arguments the caller passes to get_metrics_for_job
  clock,                  \* time.time(), in seconds
  remote_status,          \* status of the submitted query at the service
  remote_results,         \* records the service returns for the query
  completed_in_budget,    \* the query is Complete since before timeout_time
  pc,                     \* position of the get_metrics_for_job call
  calls,                  \* number of get_metrics_for_job calls so far
  previous,               \* history: how the call before the current one ended
  invoked_at,             \* clock when the current call began
  start_query_calls,      \* start_query requests of the current call
  query_id,               \* local query_id
  timeout_time,           \* local timeout_time
  wake_time,              \* end of the current time.sleep
  observed,               \* statuses of the get_query_results responses
  last_response,          \* Optional: the last get_query_results response
  status_checks,          \* number of get_query_results calls
  last_check,             \* Optional: the last get_query_results request
  sleeps,                 \* number of time.sleep calls of the current call
  drift,                  \* seconds the clock moved other than by an exact sleep
  results,                \* what _get_metrics_results_sync returned
  parser_calls,           \* parse_log_message calls on the per-call parser
  finalize_calls,         \* get_parsed_metrics calls on the per-call parser
  warnings,               \* self._logger.warning messages of the current call
  returned,               \* Optional: value returned to the caller
  raised                  \* Optional: exception raised to the caller

vars == <<poll_timeout_seconds, poll_interval_seconds, args, clock,
          remote_status, remote_results, completed_in_budget, pc, calls,
          previous, invoked_at, start_query_calls, query_id, timeout_time, wake_time,
          observed, last_response, status_checks, last_check, sleeps, drift,
          results,
          parser_calls, finalize_calls, warnings, returned, raised>>

----------------------------------------------------------------------------
(* Bounds *)

MaxClock == 16
MaxDrift == 1
MaxCalls == 2
MaxRecords == 2

----------------------------------------------------------------------------
(* Python values *)

None == <<>>
Some(v) == <<v>>

\* truth value of an Optional[int]: None and 0 are falsy
TruthyInt(o) == o # None /\ o[1] # 0

\* truth value of an Optional[str]: None and "" are falsy
TruthyStr(o) == o # None /\ o[1] # ""

----------------------------------------------------------------------------
(* Class constants and collaborators *)

LOG_GROUP_NAME == "/aws/braket/jobs"
\* a default window of three minutes
QUERY_DEFAULT_JOB_DURATION_Minutes == 3 * 60

QUERY_DEFAULT_JOB_DURATION == 3 * 60 * 60
QUERY_LIMIT == 10000

MetricTypeDefault == "TIMESTAMP"
MetricStatisticDefault == "MAX"

\* the members of the MetricType and MetricStatistic enumerations
MetricTypes == {"TIMESTAMP", "ITERATION_NUMBER"}
MetricStatistics == {"MAX", "MIN"}

Statuses == {"Running", "Timeout", "Complete", "Failed", "Cancelled"}
InitialStatuses == {"Running"}
QueryIds == {"q1", "q2"}

\* a fresh LogMetricsParser(): nothing ingested
LogMetricsParser == <<>>

\* parser.parse_log_message(timestamp, message): the parser keeps the call
parse_log_message(parser, timestamp, message) ==
  Append(parser, [timestamp |-> timestamp, message |-> message])

\* parser.get_parsed_metrics(metric_type, statistic): a function of what was
\* ingested and of the two selectors
get_parsed_metrics(parser, metric_type, statistic) ==
  [ingested |-> parser, metric_type |-> metric_type, statistic |-> statistic]

MetricsRetrievalError(qid, status) ==
  [type |-> "MetricsRetrievalError",
   message |-> <<"Query ", qid, " failed with status ", status, ".">>]

\* the exception the logs client raises when it rejects start_query
StartQueryError == [type |-> "ClientError", message |-> <<"start_query">>]

TimeoutWarning(qid) == <<"Timed out waiting for query ", qid, ".">>

----------------------------------------------------------------------------
(* get_metrics_for_job: the query window and the query string *)

query_end_time(job_end_time, now) ==
  IF TruthyInt(job_end_time) THEN job_end_time[1] ELSE now

query_start_time(job_start_time, end_time) ==
  IF TruthyInt(job_start_time) THEN job_start_time[1]
  ELSE end_time - QUERY_DEFAULT_JOB_DURATION

effective_stream_prefix(stream_prefix, job_name) ==
  IF TruthyStr(stream_prefix) THEN stream_prefix[1] ELSE job_name

query_string(prefix) ==
  <<"fields @timestamp, @message ",
    "| filter @logStream like /^", prefix, "\\// ",
    "| filter @message like /Metrics - /">>

start_query_request(a, now) ==
  LET end_time == query_end_time(a.job_end_time, now)
  IN [logGroupName |-> LOG_GROUP_NAME,
      startTime |-> query_start_time(a.job_start_time, end_time),
      endTime |-> end_time,
      queryString |->
        query_string(effective_stream_prefix(a.stream_prefix, a.job_name)),
      limit |-> QUERY_LIMIT]

effective_metric_type(a) ==
  IF a.metric_type = None THEN MetricTypeDefault ELSE a.metric_type[1]

\* a call that always resolves conflicts with the default statistic
effective_statistic_AlwaysDefault(a) == MetricStatisticDefault

effective_statistic(a) ==
  IF a.statistic = None THEN MetricStatisticDefault ELSE a.statistic[1]

----------------------------------------------------------------------------
(* Log lines *)

Min(S) == CHOOSE m \in S : \A n \in S : m <= n

Max(S) == CHOOSE m \in S : \A n \in S : m >= n

\* an extraction that keeps the last matching field
_get_element_from_log_line_Last(element_name, log_line) ==
  LET hits == {i \in DOMAIN log_line : log_line[i].field = element_name}
  IN IF hits = {} THEN None ELSE Some(log_line[Max(hits)].value)

_get_element_from_log_line(element_name, log_line) ==
  LET hits == {i \in DOMAIN log_line : log_line[i].field = element_name}
  IN IF hits = {} THEN None ELSE Some(log_line[Min(hits)].value)

\* a line parser that forwards every message that is not None
_parse_log_line_NotNone(result_entry, parser) ==
  LET message == _get_element_from_log_line("@message", result_entry)
  IN IF message # None
     THEN parse_log_message(
            parser,
            _get_element_from_log_line("@timestamp", result_entry),
            message[1])
     ELSE parser

_parse_log_line(result_entry, parser) ==
  LET message == _get_element_from_log_line("@message", result_entry)
  IN IF TruthyStr(message)
     THEN parse_log_message(
            parser,
            _get_element_from_log_line("@timestamp", result_entry),
            message[1])
     ELSE parser

\* the for loop of _parse_log_query_results
RECURSIVE ParseAll(_, _)
ParseAll(rs, parser) ==
  IF rs = <<>> THEN parser
  ELSE ParseAll(Tail(rs), _parse_log_line(Head(rs), parser))

\* a loop that starts at the second record
_parse_log_query_results_SkipsFirst(rs, metric_type, statistic) ==
  LET parser == ParseAll(IF rs = <<>> THEN rs ELSE Tail(rs), LogMetricsParser)
  IN [parser_calls |-> parser,
      finalize_calls |->
        <<[metric_type |-> metric_type, statistic |-> statistic,
           after |-> Len(parser)]>>,
      table |-> get_parsed_metrics(parser, metric_type, statistic)]

\* a parser kept on the fetcher, so that it still holds the lines of the
\* call before
_parse_log_query_results_SharedParser(rs, metric_type, statistic) ==
  LET kept == IF previous = None \/ previous[1].returned = None
              THEN LogMetricsParser
              ELSE previous[1].returned[1].ingested
      parser == ParseAll(rs, kept)
  IN [parser_calls |-> parser,
      finalize_calls |->
        <<[metric_type |-> metric_type, statistic |-> statistic,
           after |-> Len(parser)]>>,
      table |-> get_parsed_metrics(parser, metric_type, statistic)]

_parse_log_query_results(rs, metric_type, statistic) ==
  LET parser == ParseAll(rs, LogMetricsParser)
  IN [parser_calls |-> parser,
      finalize_calls |->
        <<[metric_type |-> metric_type, statistic |-> statistic,
           after |-> Len(parser)]>>,
      table |-> get_parsed_metrics(parser, metric_type, statistic)]

----------------------------------------------------------------------------
(* _get_metrics_results_sync: the decisions of the polling loop *)

PollDeadline(now, timeout) == now + timeout

\* a loop that still polls at the deadline
KeepPolling_Inclusive(now, deadline) == now <= deadline

KeepPolling(now, deadline) == now < deadline

\* a poller that takes the service's Timeout status for a failure
IsFailureStatus_OrTimeout(status) ==
  status \in {"Failed", "Cancelled", "Timeout"}

\* a poller that forgets Cancelled
IsFailureStatus_OnlyFailed(status) == status = "Failed"

IsFailureStatus(status) == status \in {"Failed", "Cancelled"}

\* a poller that takes the service's Timeout status for the end of the query
IsCompleteStatus_OrTimeout(status) == status \in {"Complete", "Timeout"}

IsCompleteStatus(status) == status = "Complete"

\* a poller that sleeps half an interval
SleepUntil_Half(now, interval) == now + (interval \div 2)

\* a poller that sleeps two intervals
SleepUntil_Twice(now, interval) == now + 2 * interval

SleepUntil(now, interval) == now + interval

----------------------------------------------------------------------------
(* Inputs *)

TimeoutValues == {0, 3, 5}
IntervalValues == {2, 3}

DefaultArgs ==
  [job_name |-> "job-1", metric_type |-> None, statistic |-> None,
   job_start_time |-> None, job_end_time |-> None, stream_prefix |-> None]

JobNames == {"job-1", "j"}
OptTimes == {None, Some(0), Some(1000)}
OptPrefixes == {None, Some(""), Some("pre")}

\* every window with the default prefix, and every prefix and job name with
\* the default window
ArgValues ==
  [job_name : {"job-1"}, metric_type : {None}, statistic : {None},
   job_start_time : OptTimes, job_end_time : OptTimes,
   stream_prefix : {None}]
  \cup
  [job_name : JobNames, metric_type : {None}, statistic : {None},
   job_start_time : {None}, job_end_time : {None},
   stream_prefix : OptPrefixes]

Ts(v) == [field |-> "@timestamp", value |-> v]
Msg(v) == [field |-> "@message", value |-> v]

LogLines ==
  {<<Ts("1000"), Msg("m1")>>,
   <<Ts("1500")>>,
   <<Msg("m2")>>,
   <<Msg(""), Ts("1000")>>,
   <<Msg(""), Msg("m3")>>}

ResultLists == UNION {[1..n -> LogLines] : n \in 0..MaxRecords}

DefaultResults == <<<<Ts("1000"), Msg("m1")>>, <<Ts("1500")>>>>

----------------------------------------------------------------------------
(* The state after CwlInsightsMetricsFetcher(...) *)

InitWith(a, timeout, interval, rr) ==
  /\ poll_timeout_seconds = timeout
  /\ poll_interval_seconds = interval
  /\ args = a
  /\ clock = 0
  /\ remote_status = "Running"
  /\ remote_results = rr
  /\ completed_in_budget = FALSE
  /\ pc = "idle"
  /\ calls = 0
  /\ previous = None
  /\ invoked_at = 0
  /\ start_query_calls = <<>>
  /\ query_id = None
  /\ timeout_time = 0
  /\ wake_time = 0
  /\ observed = <<>>
  /\ last_response = None
  /\ status_checks = 0
  /\ last_check = None
  /\ sleeps = 0
  /\ drift = 0
  /\ results = <<>>
  /\ parser_calls = <<>>
  /\ finalize_calls = <<>>
  /\ warnings = <<>>
  /\ returned = None
  /\ raised = None

\* the polling loop under every timeout and interval
InitPoll ==
  \E timeout \in TimeoutValues, interval \in IntervalValues :
    InitWith(DefaultArgs, timeout, interval, DefaultResults)

\* every combination of caller arguments
InitArgs == \E a \in ArgValues : InitWith(a, 2, 2, DefaultResults)

\* every result list of the query
InitRecords == \E rr \in ResultLists : InitWith(DefaultArgs, 2, 2, rr)

\* every choice of the two selectors, omitted or given
SelectorArgValues ==
  [job_name : {"job-1"},
   metric_type : {None} \cup {Some(t) : t \in MetricTypes},
   statistic : {None} \cup {Some(st) : st \in MetricStatistics},
   job_start_time : {None}, job_end_time : {None}, stream_prefix : {None}]

InitSelectors ==
  \E a \in SelectorArgValues : InitWith(a, 2, 2, DefaultResults)

\* the end-to-end scenario: job "job-1", window [1000, 2000], two records
EndToEndArgs ==
  [job_name |-> "job-1", metric_type |-> None, statistic |-> None,
   job_start_time |-> Some(1000), job_end_time |-> Some(2000),
   stream_prefix |-> None]

EndToEndResults ==
  <<<<Ts(1000), Msg("Metrics - energy=0.1")>>,
    <<Ts(1500), Msg("Metrics - energy=0.2")>>>>

InitEndToEnd == InitWith(EndToEndArgs, 3, 2, EndToEndResults)

Init ==
  InitPoll \/ InitArgs \/ InitRecords \/ InitSelectors \/ InitEndToEnd

----------------------------------------------------------------------------
(* get_metrics_for_job *)

remote_vars == <<remote_status, remote_results, completed_in_budget>>
config_vars == <<poll_timeout_seconds, poll_interval_seconds, args>>
poll_vars == <<query_id, timeout_time, wake_time, observed, last_response,
               status_checks, last_check, sleeps>>
parse_vars == <<results, parser_calls, finalize_calls, returned>>

\* what a finished call submitted and returned, and the configuration the
\* fetcher holds at that point
Outcome ==
  [request |-> start_query_calls[1], timed_out |-> warnings # <<>>,
   returned |-> returned,
   poll_timeout_seconds |-> poll_timeout_seconds,
   poll_interval_seconds |-> poll_interval_seconds]

\* lines 169-186: compute the window and the query, call start_query
get_metrics_for_job ==
  /\ pc \in {"idle", "returned", "raised"}
  /\ calls < MaxCalls
  /\ calls' = calls + 1
  /\ previous' = IF pc = "idle" THEN None ELSE Some(Outcome)
  /\ invoked_at' = clock
  /\ start_query_calls' = <<start_query_request(args, clock)>>
  /\ pc' = "start_query"
  /\ query_id' = None
  /\ timeout_time' = 0
  /\ wake_time' = 0
  /\ observed' = <<>>
  /\ last_response' = None
  /\ status_checks' = 0
  /\ last_check' = None
  /\ sleeps' = 0
  /\ drift' = 0
  /\ results' = <<>>
  /\ parser_calls' = <<>>
  /\ finalize_calls' = <<>>
  /\ warnings' = <<>>
  /\ returned' = None
  /\ raised' = None
  /\ remote_status' = "Running"
  /\ completed_in_budget' = FALSE
  /\ UNCHANGED <<config_vars, clock, remote_results>>

\* a submitter that tries start_query a second time before giving up
StartQueryRaises_Retries ==
  /\ pc = "start_query"
  /\ IF Len(start_query_calls) < 2
     THEN /\ start_query_calls' =
               Append(start_query_calls, start_query_calls[1])
          /\ UNCHANGED <<pc, raised>>
     ELSE /\ pc' = "raised"
          /\ raised' = Some(StartQueryError)
          /\ UNCHANGED start_query_calls
  /\ UNCHANGED <<config_vars, clock, remote_vars, calls, previous,
                 invoked_at,
                 poll_vars, drift, parse_vars, warnings>>

\* lines 180-186: start_query raises; nothing catches it
StartQueryRaises ==
  /\ pc = "start_query"
  /\ pc' = "raised"
  /\ raised' = Some(StartQueryError)
  /\ UNCHANGED <<config_vars, clock, remote_vars, calls, previous,
                 invoked_at,
                 start_query_calls, poll_vars, drift, parse_vars, warnings>>

\* lines 188, 190, 84: the query id, and the deadline of the polling
StartQueryReturns ==
  /\ pc = "start_query"
  /\ \E qid \in QueryIds, status \in InitialStatuses :
       /\ query_id' = Some(qid)
       /\ remote_status' = status
  /\ completed_in_budget' = FALSE
  /\ timeout_time' = PollDeadline(clock, poll_timeout_seconds)
  /\ drift' = 0
  /\ pc' = "loop"
  /\ UNCHANGED <<config_vars, clock, remote_results, calls, previous,
                 invoked_at,
                 start_query_calls, wake_time, observed, last_response,
                 status_checks, last_check, sleeps, parse_vars, warnings, raised>>

\* a poller that asks for the status of a fixed query
PollQuery_StaleId ==
  /\ pc = "loop"
  /\ KeepPolling(clock, timeout_time)
  /\ status_checks' = status_checks + 1
  /\ last_check' = Some([queryId |-> "q1", at |-> clock])
  /\ pc' = "get_query_results"
  /\ UNCHANGED <<config_vars, clock, remote_vars, calls, previous,
                 invoked_at,
                 start_query_calls, query_id, timeout_time, wake_time,
                 observed, last_response, sleeps, drift, parse_vars,
                 warnings, raised>>

\* lines 85-86: before the deadline, ask for the status
PollQuery ==
  /\ pc = "loop"
  /\ KeepPolling(clock, timeout_time)
  /\ status_checks' = status_checks + 1
  /\ last_check' = Some([queryId |-> query_id[1], at |-> clock])
  /\ pc' = "get_query_results"
  /\ UNCHANGED <<config_vars, clock, remote_vars, calls, previous,
                 invoked_at,
                 start_query_calls, query_id, timeout_time, wake_time,
                 observed, last_response, sleeps, drift, parse_vars,
                 warnings, raised>>

\* what _parse_log_query_results leaves behind, lines 128-131 and 192
ReturnParsed(rs) ==
  LET parsed == _parse_log_query_results(
                  rs, effective_metric_type(args), effective_statistic(args))
  IN /\ results' = rs
     /\ parser_calls' = parsed.parser_calls
     /\ finalize_calls' = parsed.finalize_calls
     /\ returned' = Some(parsed.table)
     /\ pc' = "returned"

\* a poller that turns the timeout into an exception
PollTimeout_Raises ==
  /\ pc = "loop"
  /\ ~KeepPolling(clock, timeout_time)
  /\ raised' = Some(MetricsRetrievalError(query_id[1], "Timeout"))
  /\ pc' = "raised"
  /\ UNCHANGED <<config_vars, clock, remote_vars, calls, previous,
                 invoked_at,
                 start_query_calls, poll_vars, drift, parse_vars, warnings>>

\* lines 85, 94-95, 192: at or after the deadline, warn and return no records
PollTimeout ==
  /\ pc = "loop"
  /\ ~KeepPolling(clock, timeout_time)
  /\ warnings' = Append(warnings, TimeoutWarning(query_id[1]))
  /\ ReturnParsed(<<>>)
  /\ UNCHANGED <<config_vars, clock, remote_vars, calls, previous,
                 invoked_at,
                 start_query_calls, poll_vars, drift, raised>>

\* the response of get_query_results, lines 86-87
Response ==
  [status |-> remote_status,
   results |-> IF remote_status = "Complete" THEN remote_results ELSE <<>>]

Observe ==
  /\ pc = "get_query_results"
  /\ observed' = Append(observed, Response.status)
  /\ last_response' = Some(Response)

\* a poller that parses the records of the failed query before it raises
QueryFailed_IngestsFirst ==
  /\ Observe
  /\ IsFailureStatus(Response.status)
  /\ results' = remote_results
  /\ parser_calls' = ParseAll(remote_results, LogMetricsParser)
  /\ raised' = Some(MetricsRetrievalError(query_id[1], Response.status))
  /\ pc' = "raised"
  /\ UNCHANGED <<config_vars, clock, remote_vars, calls, previous,
                 invoked_at,
                 start_query_calls, query_id, timeout_time, wake_time,
                 status_checks, last_check, sleeps, drift, finalize_calls,
                 returned, warnings>>

\* lines 88-89
QueryFailed ==
  /\ Observe
  /\ IsFailureStatus(Response.status)
  /\ raised' = Some(MetricsRetrievalError(query_id[1], Response.status))
  /\ pc' = "raised"
  /\ UNCHANGED <<config_vars, clock, remote_vars, calls, previous,
                 invoked_at,
                 start_query_calls, query_id, timeout_time, wake_time,
                 status_checks, last_check, sleeps, drift, parse_vars, warnings>>

\* a poller that drops the records of the completed query
QueryComplete_ReturnsEmpty ==
  /\ Observe
  /\ ~IsFailureStatus(Response.status)
  /\ IsCompleteStatus(Response.status)
  /\ ReturnParsed(<<>>)
  /\ UNCHANGED <<config_vars, clock, remote_vars, calls, previous,
                 invoked_at,
                 start_query_calls, query_id, timeout_time, wake_time,
                 status_checks, last_check, sleeps, drift, warnings, raised>>

\* lines 90-91, 192
QueryComplete ==
  /\ Observe
  /\ ~IsFailureStatus(Response.status)
  /\ IsCompleteStatus(Response.status)
  /\ ReturnParsed(Response.results)
  /\ UNCHANGED <<config_vars, clock, remote_vars, calls, previous,
                 invoked_at,
                 start_query_calls, query_id, timeout_time, wake_time,
                 status_checks, last_check, sleeps, drift, warnings, raised>>

\* a poller that, once the query is submitted, waits on a pending status
\* until the service reports another one
QueryPending_WaitsForTerminal ==
  /\ pc = "get_query_results"
  /\ ~IsFailureStatus(Response.status)
  /\ ~IsCompleteStatus(Response.status)
  /\ UNCHANGED vars

\* lines 92-93: time.sleep begins
QueryPending ==
  /\ Observe
  /\ ~IsFailureStatus(Response.status)
  /\ ~IsCompleteStatus(Response.status)
  /\ sleeps' = sleeps + 1
  /\ wake_time' = SleepUntil(clock, poll_interval_seconds)
  /\ pc' = "sleep"
  /\ UNCHANGED <<config_vars, clock, remote_vars, calls, previous,
                 invoked_at,
                 start_query_calls, query_id, timeout_time, status_checks, last_check,
                 drift, parse_vars, warnings, raised>>

\* line 93: time.sleep returns
Wake ==
  /\ pc = "sleep"
  /\ clock >= wake_time
  /\ pc' = "loop"
  /\ UNCHANGED <<config_vars, clock, remote_vars, calls, previous,
                 invoked_at,
                 start_query_calls, poll_vars, drift, parse_vars, warnings,
                 raised>>

----------------------------------------------------------------------------
(* The environment: the wall clock and the remote query *)

\* the clock moves while time.sleep waits for it
SleepTick ==
  /\ pc = "sleep"
  /\ clock < wake_time
  /\ clock < MaxClock
  /\ clock' = clock + 1
  /\ UNCHANGED <<config_vars, remote_vars, pc, calls, previous,
                 invoked_at,
                 start_query_calls, poll_vars, drift, parse_vars, warnings,
                 raised>>

\* the clock moves during a remote call, between two statements, or while
\* time.sleep sleeps longer than asked
DriftTick ==
  /\ \/ pc \in {"start_query", "loop", "get_query_results"}
     \/ pc = "sleep" /\ clock >= wake_time
  /\ drift < MaxDrift
  /\ clock < MaxClock
  /\ clock' = clock + 1
  /\ drift' = drift + 1
  /\ UNCHANGED <<config_vars, remote_vars, pc, calls, previous,
                 invoked_at,
                 start_query_calls, poll_vars, parse_vars, warnings, raised>>

\* the submitted query changes status at the service
RemoteTransition ==
  /\ pc \in {"get_query_results", "sleep"}
  /\ \E status \in Statuses \ {remote_status} :
       /\ remote_status' = status
       /\ completed_in_budget' = (status = "Complete" /\ clock < timeout_time)
  /\ UNCHANGED <<config_vars, clock, remote_results, pc, calls, previous,
                 invoked_at,
                 start_query_calls, poll_vars, drift, parse_vars, warnings,
                 raised>>

Next ==
  \/ get_metrics_for_job
  \/ StartQueryRaises
  \/ StartQueryReturns
  \/ PollQuery
  \/ PollTimeout
  \/ QueryFailed
  \/ QueryComplete
  \/ QueryPending
  \/ Wake
  \/ SleepTick
  \/ DriftTick
  \/ RemoteTransition

Spec == Init /\ [][Next]_vars
SpecPoll == InitPoll /\ [][Next]_vars
SpecArgs == InitArgs /\ [][Next]_vars
SpecRecords == InitRecords /\ [][Next]_vars
SpecSelectors == InitSelectors /\ [][Next]_vars
SpecEndToEnd == InitEndToEnd /\ [][Next]_vars

\* Scheduling: every remote call returns, every statement of the program
\* that can run does run, and the clock moves while time.sleep waits for it.
\* Nothing is assumed of the remote query or of the extra time a step takes.
Fairness ==
  /\ WF_vars(StartQueryRaises \/ StartQueryReturns)
  /\ WF_vars(PollQuery)
  /\ WF_vars(PollTimeout)
  /\ WF_vars(QueryFailed \/ QueryComplete \/ QueryPending)
  /\ WF_vars(Wake)
  /\ WF_vars(SleepTick)

SpecLive == InitPoll /\ [][Next]_vars /\ Fairness

----------------------------------------------------------------------------
(* Properties of the polling loop, under SpecPoll *)

Last(seq) == seq[Len(seq)]

TerminalStatuses == {"Complete", "Failed", "Cancelled"}

\* C1: the first status check that observes Failed or Cancelled makes the
\* call raise MetricsRetrievalError whose message names the query id and the
\* observed status, and once raised no further get_query_results call and no
\* sleep is issued by that call.
C1_FailureRaises ==
  [][/\ (/\ pc = "get_query_results"
         /\ pc' # pc
         /\ remote_status \in {"Failed", "Cancelled"})
        => /\ pc' = "raised"
           /\ returned' = None
           /\ raised' = Some([type |-> "MetricsRetrievalError",
                              message |-> <<"Query ", query_id[1],
                                            " failed with status ",
                                            remote_status, ".">>])
     /\ (pc = "raised" /\ calls' = calls)
        => /\ pc' = "raised"
           /\ status_checks' = status_checks
           /\ sleeps' = sleeps
           /\ raised' = raised]_vars

C1_Witness ==
  /\ pc = "raised"
  /\ raised # None
  /\ raised[1].type = "MetricsRetrievalError"
  /\ Len(observed) >= 2
  /\ Last(observed) = "Cancelled"

\* C2: when every status check of a call returned a status other than
\* Complete, Failed and Cancelled, the call does not raise: it logs exactly
\* one timeout warning, the poller returns no records, nothing is ingested
\* and the caller gets the parser's table for zero records.
C2_TimeoutReturnsEmpty ==
  (/\ pc \in {"returned", "raised"}
   /\ query_id # None
   /\ \A i \in DOMAIN observed : observed[i] \notin TerminalStatuses)
  => /\ pc = "returned"
     /\ raised = None
     /\ warnings = <<TimeoutWarning(query_id[1])>>
     /\ results = <<>>
     /\ parser_calls = <<>>
     /\ returned = Some(get_parsed_metrics(LogMetricsParser,
                                           MetricTypeDefault,
                                           MetricStatisticDefault))

C2_Witness ==
  /\ pc = "returned"
  /\ Len(warnings) = 1
  /\ Len(observed) >= 2
  /\ \A i \in DOMAIN observed : observed[i] \notin TerminalStatuses

\* C3: with remote calls taking no time and every sleep lasting exactly the
\* interval, a call that sees k non-terminal statuses and then Complete made
\* exactly k+1 status checks and k sleeps and returns the records of the last
\* response; and it is not cut short by the timeout while k * interval is
\* below the timeout.
C3_ExactPolling ==
  /\ (pc = "returned" /\ drift = 0 /\ warnings = <<>>)
     => /\ observed # <<>>
        /\ Last(observed) = "Complete"
        /\ \A i \in 1..(Len(observed) - 1) : observed[i] \notin TerminalStatuses
        /\ status_checks = Len(observed)
        /\ sleeps = Len(observed) - 1
        /\ results = last_response[1].results
        /\ results = remote_results
  /\ (pc = "returned" /\ drift = 0 /\ warnings # <<>>)
     => Len(observed) * poll_interval_seconds >= poll_timeout_seconds

C3_Witness ==
  /\ pc = "returned"
  /\ drift = 0
  /\ observed = <<"Running", "Running", "Complete">>
  /\ status_checks = 3
  /\ sleeps = 2
  /\ results # <<>>

\* C4 as claimed: a query that became Complete before the deadline (and
\* stayed so) never gives the empty timeout result: the call returns the
\* table built from its records.
C4_Claimed ==
  (pc = "returned" /\ completed_in_budget)
  => /\ warnings = <<>>
     /\ returned = Some(_parse_log_query_results(
                          remote_results, MetricTypeDefault,
                          MetricStatisticDefault).table)

\* C4 amended: the empty timeout result is returned exactly when no status
\* check of the call observed Complete; a check that observes Complete began
\* strictly before the deadline and the call returns the table built from the
\* records of that response.
C4_TimeoutOnlyWithoutCompleteObserved ==
  pc = "returned"
  => IF observed # <<>> /\ Last(observed) = "Complete"
     THEN /\ warnings = <<>>
          /\ last_check[1].at < timeout_time
          /\ returned = Some(_parse_log_query_results(
                               remote_results, MetricTypeDefault,
                               MetricStatisticDefault).table)
     ELSE /\ warnings # <<>>
          /\ clock >= timeout_time
          /\ returned = Some(get_parsed_metrics(LogMetricsParser,
                                                MetricTypeDefault,
                                                MetricStatisticDefault))

C4_Witness ==
  /\ pc = "returned"
  /\ Len(observed) >= 2
  /\ Last(observed) = "Complete"
  /\ warnings = <<>>
  /\ returned # Some(get_parsed_metrics(LogMetricsParser, MetricTypeDefault,
                                        MetricStatisticDefault))

----------------------------------------------------------------------------
(* Properties of the submitted query, under SpecArgs *)

\* C5: called with neither job_start_time nor job_end_time, the start_query
\* request has endTime equal to the clock at the call and a window of
\* exactly 10800 seconds, for every job name.
C5_DefaultWindow ==
  (/\ start_query_calls # <<>>
   /\ args.job_start_time = None
   /\ args.job_end_time = None)
  => /\ start_query_calls[1].endTime = invoked_at
     /\ start_query_calls[1].endTime - start_query_calls[1].startTime = 10800

C5_Witness ==
  /\ start_query_calls # <<>>
  /\ args.job_start_time = None
  /\ args.job_end_time = None
  /\ args.job_name = "j"
  /\ invoked_at > 0
  /\ clock > invoked_at
  /\ start_query_calls[1].startTime = invoked_at - 10800

\* C6 as claimed: a default bound of the window is used exactly when the
\* argument is None: every supplied job_end_time, 0 included, is the
\* submitted endTime, every supplied job_start_time, 0 included, is the
\* submitted startTime, and an unspecified job_start_time gives
\* startTime = endTime - 10800.
C6_Claimed ==
  start_query_calls # <<>>
  => /\ args.job_end_time # None
        => start_query_calls[1].endTime = args.job_end_time[1]
     /\ args.job_start_time # None
        => start_query_calls[1].startTime = args.job_start_time[1]
     /\ args.job_start_time = None
        => start_query_calls[1].startTime =
             start_query_calls[1].endTime - 10800

\* C7 as claimed: the log-stream filter of the submitted query is anchored
\* at the start of the stream name with job_name when stream_prefix is
\* omitted (None) and with the supplied stream_prefix otherwise.
C7_Claimed ==
  start_query_calls # <<>>
  => start_query_calls[1].queryString =
       <<"fields @timestamp, @message ",
         "| filter @logStream like /^",
         IF args.stream_prefix = None THEN args.job_name
         ELSE args.stream_prefix[1],
         "\\// ",
         "| filter @message like /Metrics - /">>

----------------------------------------------------------------------------
(* Properties of the ingestion, under SpecRecords *)

HasField(line, name) == \E j \in DOMAIN line : line[j].field = name

FirstValue(line, name) ==
  line[CHOOSE j \in DOMAIN line :
         /\ line[j].field = name
         /\ \A k \in 1..(j - 1) : line[k].field # name].value

\* the first @message field of the line has a non-empty value
Retained(line) ==
  HasField(line, "@message") /\ FirstValue(line, "@message") # ""

\* C8 as claimed: a record is forwarded to parse_log_message exactly when
\* its field list contains a field named @message.
C8_Claimed ==
  pc = "returned"
  => Len(parser_calls) =
       Cardinality({i \in DOMAIN results : HasField(results[i], "@message")})

\* C8 amended: a record is forwarded to parse_log_message exactly when the
\* first field named @message in its field list has a non-empty value; a
\* record with no @message field, or with an empty one, is skipped without
\* error and contributes nothing to the table.
C8_ForwardedIffMessageNonEmpty ==
  pc = "returned"
  => /\ Len(parser_calls) =
          Cardinality({i \in DOMAIN results : Retained(results[i])})
     /\ \A i \in DOMAIN results :
          Retained(results[i])
          => \E c \in DOMAIN parser_calls :
               parser_calls[c].message = FirstValue(results[i], "@message")
     /\ \A c \in DOMAIN parser_calls : parser_calls[c].message # ""
     /\ raised = None
     /\ returned # None
     /\ returned[1].ingested = parser_calls

C8_Witness ==
  /\ pc = "returned"
  /\ \E i, j \in DOMAIN results :
       /\ Retained(results[i])
       /\ HasField(results[j], "@message") /\ ~Retained(results[j])
  /\ Len(parser_calls) = 1

\* the parse_log_message call a retained record gives rise to
IngestionOf(line) ==
  [timestamp |-> IF HasField(line, "@timestamp")
                 THEN Some(FirstValue(line, "@timestamp")) ELSE None,
   message |-> FirstValue(line, "@message")]

\* C9: the parse_log_message calls on the per-call parser are the retained
\* records of the poller's result list, in query-result order, each once,
\* and get_parsed_metrics is called exactly once, after the last of them.
C9_InOrderExactlyOnce ==
  pc = "returned"
  => LET kept == SelectSeq(results, Retained)
     IN /\ parser_calls = [i \in 1..Len(kept) |-> IngestionOf(kept[i])]
        /\ Len(finalize_calls) = 1
        /\ finalize_calls[1].after = Len(parser_calls)

C9_Witness ==
  /\ pc = "returned"
  /\ Len(results) >= 2
  /\ Len(parser_calls) = 2
  /\ parser_calls[1] # parser_calls[2]
  /\ Len(finalize_calls) = 1

----------------------------------------------------------------------------
(* Properties of the submission, under SpecPoll *)

\* C10: start_query is called once per call and never retried; when it
\* fails the call raises that failure, and no get_query_results call, no
\* sleep, no parse_log_message and no get_parsed_metrics happens.
C10_SubmissionFailurePropagates ==
  /\ Len(start_query_calls) <= 1
  /\ (pc = "raised" /\ query_id = None)
     => /\ raised = Some([type |-> "ClientError",
                          message |-> <<"start_query">>])
        /\ Len(start_query_calls) = 1
        /\ status_checks = 0
        /\ last_check = None
        /\ observed = <<>>
        /\ sleeps = 0
        /\ parser_calls = <<>>
        /\ finalize_calls = <<>>
        /\ warnings = <<>>
        /\ returned = None

C10_Witness ==
  /\ pc = "raised"
  /\ query_id = None
  /\ raised # None
  /\ raised[1].type = "ClientError"
  /\ calls = 2

----------------------------------------------------------------------------
(* Outcomes and order of the stages, under SpecPoll *)

\* C11: a call ends either raised, with nothing ingested and
\* get_parsed_metrics never called, or returned, with exactly the value
\* get_parsed_metrics produced for what the parser ingested; never both, and
\* no error is raised after records were ingested.
C11_RaiseOrParsedTable ==
  /\ ~(raised # None /\ returned # None)
  /\ pc \notin {"returned", "raised"} => (raised = None /\ returned = None)
  /\ pc = "raised"
     => /\ raised # None
        /\ parser_calls = <<>>
        /\ finalize_calls = <<>>
  /\ pc = "returned"
     => /\ returned # None
        /\ Len(finalize_calls) = 1
        /\ returned[1] = get_parsed_metrics(parser_calls,
                                            finalize_calls[1].metric_type,
                                            finalize_calls[1].statistic)

C11_Witness ==
  /\ pc = "raised"
  /\ raised # None
  /\ raised[1].type = "MetricsRetrievalError"
  /\ Last(observed) = "Failed"
  /\ \E i \in DOMAIN remote_results : Retained(remote_results[i])
  /\ parser_calls = <<>>

\* C16: within a call start_query is called exactly once and before any
\* get_query_results, every get_query_results carries the query id that
\* start_query returned, and nothing is ingested or finalized before the
\* last status check has returned.
C16_StagesInOrder ==
  /\ pc # "idle" => Len(start_query_calls) = 1
  /\ pc = "start_query" => (status_checks = 0 /\ query_id = None)
  /\ status_checks > 0
     => /\ query_id # None
        /\ last_check # None
        /\ last_check[1].queryId = query_id[1]
  /\ (parser_calls # <<>> \/ finalize_calls # <<>>)
     => /\ pc = "returned"
        /\ Len(observed) = status_checks

C16_Witness ==
  /\ pc = "returned"
  /\ query_id = Some("q2")
  /\ status_checks >= 2
  /\ parser_calls # <<>>

\* C17: a status other than Complete, Failed and Cancelled is not terminal:
\* the response neither returns nor raises, the poller sleeps one poll
\* interval, and after the sleep it polls again when the deadline has not
\* passed.
C17_OtherStatusesNonTerminal ==
  [][/\ (/\ pc = "get_query_results"
         /\ pc' # pc
         /\ remote_status \notin {"Complete", "Failed", "Cancelled"})
        => /\ pc' = "sleep"
           /\ returned' = None
           /\ raised' = None
           /\ sleeps' = sleeps + 1
           /\ wake_time' = clock + poll_interval_seconds
     /\ (pc = "sleep" /\ pc' # pc)
        => /\ pc' = "loop"
           /\ clock >= wake_time
     /\ (pc = "loop" /\ pc' # pc /\ clock < timeout_time)
        => /\ pc' = "get_query_results"
           /\ status_checks' = status_checks + 1]_vars

C17_Witness ==
  /\ pc = "get_query_results"
  /\ observed # <<>>
  /\ Last(observed) = "Timeout"
  /\ sleeps = Len(observed)
  /\ status_checks = Len(observed) + 1

\* C19: no status check starts at or after the deadline: every
\* get_query_results call begins at a clock strictly below timeout_time; with
\* a timeout of 0 or less the call makes no status check and returns the
\* empty record list although the query was submitted.
C19_NoCheckAtOrAfterDeadline ==
  /\ last_check # None => last_check[1].at < timeout_time
  /\ pc = "get_query_results" => clock >= last_check[1].at
  /\ poll_timeout_seconds <= 0
     => /\ status_checks = 0
        /\ pc = "returned"
           => /\ Len(start_query_calls) = 1
              /\ query_id # None
              /\ results = <<>>
              /\ Len(warnings) = 1

C19_Witness ==
  /\ pc = "returned"
  /\ poll_timeout_seconds = 0
  /\ query_id # None
  /\ status_checks = 0
  /\ results = <<>>

CeilDiv(a, b) == (a + b - 1) \div b

\* C20: with a timeout T > 0 and an interval I > 0, a call makes at most
\* ceil(T / I) status checks, whatever statuses the service returns.
C20_AtMostCeilChecks ==
  (poll_timeout_seconds > 0 /\ poll_interval_seconds > 0)
  => status_checks <= CeilDiv(poll_timeout_seconds, poll_interval_seconds)

C20_Witness ==
  /\ poll_timeout_seconds = 5
  /\ poll_interval_seconds = 2
  /\ status_checks = 3
  /\ drift = 0

----------------------------------------------------------------------------
(* Extraction of the fields, under SpecRecords *)

----------------------------------------------------------------------------
(* The selectors, under SpecSelectors *)

\* C14: get_parsed_metrics receives exactly the metric_type and statistic
\* the caller gave (MetricType.TIMESTAMP and MetricStatistic.MAX when
\* omitted), and the start_query request and the ingested records are the
\* same for every value of the two selectors.
C14_SelectorsPassedThrough ==
  /\ finalize_calls # <<>>
     => /\ finalize_calls[1].metric_type =
             IF args.metric_type = None THEN "TIMESTAMP"
             ELSE args.metric_type[1]
        /\ finalize_calls[1].statistic =
             IF args.statistic = None THEN "MAX" ELSE args.statistic[1]
  /\ start_query_calls # <<>>
     => start_query_calls[1] = start_query_request(DefaultArgs, invoked_at)
  /\ pc = "returned"
     => parser_calls \in {<<>>, ParseAll(DefaultResults, LogMetricsParser)}

C14_Witness ==
  /\ pc = "returned"
  /\ args.metric_type = Some("ITERATION_NUMBER")
  /\ args.statistic = Some("MIN")
  /\ finalize_calls[1].metric_type = "ITERATION_NUMBER"
  /\ finalize_calls[1].statistic = "MIN"
  /\ parser_calls # <<>>

----------------------------------------------------------------------------
(* A line parser that extracts key=value pairs after the "Metrics - "      *)
(* marker, and its table: one row per distinct timestamp in arrival order, *)
(* one column per metric, conflicts resolved by the statistic.  Metric     *)
(* values are counted in tenths: 0.1 is 1, 0.2 is 2.                       *)

KeyValuePairs(message) ==
  CASE message = "Metrics - energy=0.1" -> <<[name |-> "energy", value |-> 1]>>
    [] message = "Metrics - energy=0.2" -> <<[name |-> "energy", value |-> 2]>>
    [] OTHER -> <<>>

\* the timestamps of the ingested lines that carry a metric, first arrival
\* first, each once
RECURSIVE DistinctTimestamps(_, _)
DistinctTimestamps(parser, seen) ==
  IF parser = <<>> THEN seen
  ELSE LET call == Head(parser)
           known == \E i \in DOMAIN seen : seen[i] = call.timestamp
       IN DistinctTimestamps(
            Tail(parser),
            IF KeyValuePairs(call.message) = <<>> \/ known THEN seen
            ELSE Append(seen, call.timestamp))

ValuesAt(parser, timestamp, name) ==
  {KeyValuePairs(parser[c].message)[1].value :
     c \in {d \in DOMAIN parser :
              /\ KeyValuePairs(parser[d].message) # <<>>
              /\ parser[d].timestamp = timestamp
              /\ KeyValuePairs(parser[d].message)[1].name = name}}

Resolve(statistic, S) ==
  IF S = {} THEN None
  ELSE IF statistic = "MAX" THEN Max(S) ELSE Min(S)

KeyValueTable(parser, metric_type, statistic) ==
  LET carrying == SelectSeq(parser,
                            LAMBDA call : KeyValuePairs(call.message) # <<>>)
      stamps == DistinctTimestamps(carrying, <<>>)
      names == {KeyValuePairs(carrying[c].message)[1].name :
                  c \in DOMAIN carrying}
  IN [column \in {"timestamp"} \cup names |->
        IF column = "timestamp"
        THEN [i \in DOMAIN stamps |-> stamps[i][1]]
        ELSE [i \in DOMAIN stamps |->
                Resolve(statistic, ValuesAt(carrying, stamps[i], column))]]

\* the Metrics Table a returned value stands for under this parser
TableOf(value) ==
  KeyValueTable(value.ingested, value.metric_type, value.statistic)

----------------------------------------------------------------------------
(* The end-to-end scenario, under SpecEndToEnd *)

\* C13: for job "job-1", window [1000, 2000] and a Complete query with the
\* records "Metrics - energy=0.1" at 1000 and "Metrics - energy=0.2" at
\* 1500, the call submits that window and returns the table
\* {"timestamp": [1000, 1500], "energy": [0.1, 0.2]}.
C13_EndToEndTable ==
  (pc = "returned" /\ warnings = <<>>)
  => /\ start_query_calls[1].startTime = 1000
     /\ start_query_calls[1].endTime = 2000
     /\ TableOf(returned[1]) =
          [timestamp |-> <<1000, 1500>>, energy |-> <<1, 2>>]

C13_Witness ==
  /\ pc = "returned"
  /\ warnings = <<>>
  /\ Len(parser_calls) = 2
  /\ Len(observed) >= 2

----------------------------------------------------------------------------
(* Repeated calls on one fetcher, under SpecEndToEnd *)

\* C12: a second call with the same inputs (explicit start and end times),
\* answered by the remote service as the first one was (both saw the query
\* Complete, or both timed out), submits the same request and returns the
\* same table; its parser holds the lines of this
\* call only, and the fetcher's timeout and interval are what they were.
C12_RepeatedCallSameTable ==
  previous # None
  => /\ poll_timeout_seconds = previous[1].poll_timeout_seconds
     /\ poll_interval_seconds = previous[1].poll_interval_seconds
     /\ (TruthyInt(args.job_start_time) /\ TruthyInt(args.job_end_time))
        => start_query_calls[1] = previous[1].request
     /\ pc = "returned"
        => parser_calls = ParseAll(results, LogMetricsParser)
     /\ (pc = "returned" /\ previous[1].returned # None
         /\ (warnings # <<>>) = previous[1].timed_out)
        => returned = previous[1].returned

C12_Witness ==
  /\ previous # None
  /\ pc = "returned"
  /\ TruthyInt(args.job_start_time)
  /\ TruthyInt(args.job_end_time)
  /\ previous[1].returned # None
  /\ warnings = <<>>
  /\ ~previous[1].timed_out
  /\ Len(previous[1].returned[1].ingested) = 2
  /\ Len(parser_calls) = 2

----------------------------------------------------------------------------
(* Termination, under SpecLive *)

\* C15: every invocation of get_metrics_for_job eventually returns or
\* raises, whatever the remote query does, as long as remote calls return
\* and the clock moves during every sleep.  The clock of the model stops at
\* MaxClock, where that assumption ends.
C15_EveryCallEnds ==
  (pc = "start_query") ~> (pc \in {"returned", "raised"} \/ clock = MaxClock)

\* a call that timed out on a query that never left a pending status
C15_Witness ==
  /\ pc = "returned"
  /\ clock < MaxClock
  /\ warnings # <<>>
  /\ Len(observed) >= 2
  /\ \A i \in DOMAIN observed : observed[i] = "Running"

====
